---- MODULE Spec2Model ----
(***************************************************************************)
(* Session registry and request router of the MCP Streamable-HTTP example  *)
(* server (src/unnamed/part_000).                                          *)
(*                                                                         *)
(* The registry is the plain object `transports`; the router is the POST   *)
(* handler and handleSessionRequest (GET, DELETE).  The SDK transport is   *)
(* the environment: it calls sessionIdGenerator and onsessioninitialized   *)
(* while it handles an initialize request, and onclose when the            *)
(* connection is closed (a DELETE that was handed to it, or any other      *)
(* reason).  Node runs one callback at a time: a handler runs from the     *)
(* arrival of its request, or from the await it resumes at, to its next    *)
(* await or return, and only then does the next callback run.              *)
(*                                                                         *)
(* Spec       : randomUUID() never returns the same value twice.           *)
(* SpecAnyGen : randomUUID() may return any value of the universe, also    *)
(*              one it returned before.                                    *)
(***************************************************************************)
EXTENDS Integers, Sequences, FiniteSets, TLC

(* ------------------------------ bounds --------------------------------- *)
\* transports the process constructs at most
MaxHandles == 2
\* whole seconds the wall clock runs through
MaxSec == 1

HandleIds == 1..MaxHandles
\* the values randomUUID() can return
Ids == {"uuid-a", "uuid-b"}

(* ------------------------- JavaScript values --------------------------- *)
\* req.headers[name] of a header the request does not carry
Undefined == "<undefined>"
\* transports[k] when k is no own property and nothing is inherited
NoTransport == 0
\* transports[k] when k names a member of Object.prototype: a truthy value
\* that is no transport (it has no handleRequest)
Inherited == -1
\* names every plain object inherits from Object.prototype
ObjectPrototypeKeys == {"constructor"}
\* a well-formed header value that randomUUID() never returns
Stranger == "no-such-session"
\* values of the header mcp-session-id: absent, empty, a UUID, another string
HeaderValues == {Undefined, "", Stranger} \cup Ids \cup ObjectPrototypeKeys

\* JavaScript truthiness of a header value (a string or undefined)
Truthy(v) == v \notin {Undefined, ""}

Verbs == {"POST", "GET", "DELETE"}
\* a JSON-RPC body: its method and whether the rest of the envelope
\* (jsonrpc, id, params) is what the method's schema asks for
InitializeBody == [method |-> "initialize", envelope |-> "valid"]
Bodies ==
  {InitializeBody,
   [method |-> "initialize", envelope |-> "invalid"],
   [method |-> "tools/call", envelope |-> "valid"]}
NoBody == [method |-> "", envelope |-> "invalid"]

Request(verb, mcp, other, body) ==
  [verb |-> verb, mcp |-> mcp, other |-> other, body |-> body]

\* requests of a client that names the header mcp-session-id, and requests of
\* a client that puts a session id in a header named session-id instead
PostRequests ==
  {Request("POST", m, Undefined, b) : m \in HeaderValues, b \in Bodies}
  \cup {Request("POST", Undefined, o, b) : o \in Ids, b \in Bodies \ {InitializeBody}}
SessionRequests ==
  {Request(v, m, Undefined, NoBody) : v \in {"GET", "DELETE"}, m \in HeaderValues}
  \cup {Request(v, Undefined, o, NoBody) : v \in {"GET", "DELETE"}, o \in Ids}
NoRequest == [verb |-> "", mcp |-> Undefined, other |-> Undefined, body |-> NoBody]

\* bug: only the method name is looked at
isInitializeRequest_methodOnly(body) == body.method = "initialize"

\* isInitializeRequest of the SDK: the body parses as an InitializeRequest
isInitializeRequest(body) ==
  body.method = "initialize" /\ body.envelope = "valid"

(* ------------------------------ responses ------------------------------ *)
StatusBadRequest == 400
StatusServerError == 500
\* no status line was written by the router
StatusNone == 0
ErrorCode == -32000

Response(status, ctype, code, message, sid) ==
  [status |-> status, ctype |-> ctype, code |-> code, message |-> message,
   sid |-> sid]

\* res.status(400).json({jsonrpc: '2.0', error: {...}, id: null})
BadRequestJson ==
  Response(StatusBadRequest, "json:jsonrpc=2.0,id=null", ErrorCode,
           "Bad Request: No valid session ID provided", Undefined)
\* res.status(400).send('Invalid or missing session ID')
BadRequestText ==
  Response(StatusBadRequest, "text", 0, "Invalid or missing session ID", Undefined)
\* the response is written by the transport the request was handed to
SdkResponse(kind, sid) == Response(StatusNone, "sdk", 0, kind, sid)
\* the handler threw: the framework answers 500 or not at all
Thrown(status) ==
  Response(status, "none", 0, "TypeError: transport.handleRequest is not a function",
           Undefined)

(* -------------------------------- state -------------------------------- *)
VARIABLES
  transports,  \* the registry: own properties of the object `transports`
  handle,      \* the transports constructed so far
  removed,     \* history: identifiers an onclose callback deleted
  running,     \* the handler run in progress and its response, or Idle
  now,         \* the wall clock
  calls,       \* per current-time tool: its latest results, oldest first
  client       \* the example client (client.js)

serverVars == <<transports, handle, removed, running>>
clockVars == <<now, calls>>
clientVars == <<client>>
vars == <<transports, handle, removed, running, now, calls, client>>

\* phase of a transport:
\*   unborn        not constructed
\*   connecting    constructed, `await server.connect(transport)` pending
\*   connectFailed server.connect rejected, the handler ended
\*   refused       handed its initialize request, which the SDK refused
\*   initialized   handed its initialize request, session id assigned
Phases == {"unborn", "connecting", "connectFailed", "refused", "initialized"}

\* req is the request of the handler that awaits server.connect; uuid is
\* what randomUUID() returned for this transport; scen follows the scenario
\* initialize (1), tool call answered (2), DELETE handed over (3), DELETE
\* processed: the transport closed (4); tools are the names registered on
\* the McpServer constructed together with the transport
Unborn ==
  [phase |-> "unborn", sessionId |-> Undefined, uuid |-> Undefined,
   closed |-> FALSE, req |-> NoRequest, scen |-> 0, tools |-> {}]

\* new McpServer({...}): a server with no tool
NewMcpServer == {}

ToolName == "get_current_time"

\* variant: the call registers nothing
server_tool_skipped(registered, name) == registered

\* server.tool(name, description, {}, callback)
server_tool(registered, name) == registered \cup {name}

NoResponse == Response(StatusNone, "none", 0, "", Undefined)

\* no callback is running
Idle == [step |-> "idle", req |-> NoRequest, handle |-> NoTransport,
         res |-> NoResponse]

Constructed == {h \in HandleIds : handle[h].phase # "unborn"}

\* values randomUUID() returned so far
Minted == {handle[h].uuid : h \in Constructed} \ {Undefined}

(* -------------------------- current-time tool -------------------------- *)
MicrosPerSecond == 1000000
MicrosPerMilli == 1000
\* instants of the wall clock: a whole second and the microsecond in it
Instants == [sec : 0..MaxSec, micro : {0, 1, 1000, 999999}]
Epoch == [sec |-> 0, micro |-> 0]
TimeValue(i) == i.sec * MicrosPerSecond + i.micro

Pow10(n) == IF n = 0 THEN 1 ELSE IF n = 1 THEN 10 ELSE IF n = 2 THEN 100
            ELSE IF n = 3 THEN 1000 ELSE IF n = 4 THEN 10000
            ELSE IF n = 5 THEN 100000 ELSE 1000000
\* n written with w decimal digits
Digits(n, w) == [i \in 1..w |-> (n \div Pow10(w - i)) % 10]

\* a timestamp string, field by field: date and time to the second, the
\* digits after the decimal point (none: no decimal point), the zone
\* designator
Timestamp(seconds, fraction, zone) ==
  [seconds |-> seconds, fraction |-> fraction, zone |-> zone]

\* the tools that return the current time
NodeTool == "server.tool get_current_time"
PythonTool == "tools_local.py get_current_time"
TimeTools == {NodeTool, PythonTool}

\* getCurrentTime() of tools_local.js: new Date().toISOString(), the time to
\* the millisecond in UTC
getCurrentTime(t) ==
  Timestamp(t.sec, Digits(t.micro \div MicrosPerMilli, 3), "Z")

\* bug: the naive local time, without zone designator
get_current_time_naive(t) ==
  Timestamp(t.sec, IF t.micro = 0 THEN <<>> ELSE Digits(t.micro, 6), "")

\* datetime.now(timezone.utc).isoformat(): isoformat() writes the
\* microseconds only when they are not 0
get_current_time(t) ==
  Timestamp(t.sec, IF t.micro = 0 THEN <<>> ELSE Digits(t.micro, 6), "+00:00")

\* async () => ({content: [{type: 'text', text: getCurrentTime()}]})
ToolResult(text) == [type |-> "text", text |-> text, isError |-> FALSE]

\* keep the latest two results
Latest(s, r) == IF Len(s) < 2 THEN Append(s, r) ELSE <<s[2], r>>

\* time passes: the wall clock does not run backwards
ClockAdvance ==
  /\ \E t \in Instants : TimeValue(t) > TimeValue(now) /\ now' = t
  /\ UNCHANGED <<calls, serverVars, clientVars>>

\* the tool handler of the Node server is invoked and returns
CallNodeTool ==
  /\ calls' = [calls EXCEPT ![NodeTool] = Latest(@, ToolResult(getCurrentTime(now)))]
  /\ UNCHANGED <<now, serverVars, clientVars>>

\* get_current_time of the Python tools module is invoked and returns
CallPythonTool ==
  /\ calls' = [calls EXCEPT ![PythonTool] = Latest(@, ToolResult(get_current_time(now)))]
  /\ UNCHANGED <<now, serverVars, clientVars>>

(* ------------------------------- client -------------------------------- *)
\* the names a server may list
ListedNames == {"get_current_time", "fetch_data"}

ExitFailure == 1
\* the process has not called process.exit
NoExit == -1
NoResult == [type |-> "none", text |-> Timestamp(0, <<>>, ""), isError |-> FALSE]

\* pc: where main() is. start: not yet called; connect, listTools, callTool,
\* close: suspended at the await of that call; returned: main() returned;
\* exited: process.exit was called.
\* issued: the calls on the SDK client made so far, in order; completed:
\* those whose promise resolved; tools: the names of tools.tools; result:
\* what callTool resolved to.
ClientStart ==
  [pc |-> "start", issued |-> <<>>, completed |-> <<>>, tools |-> {},
   result |-> NoResult, exit |-> NoExit]

\* main() makes the call and suspends at its await
Await(c, call) == [c EXCEPT !.pc = call, !.issued = Append(@, call)]

\* the awaited promise resolved
Resolved(c) == [c EXCEPT !.completed = Append(@, c.pc)]

\* variant: the tool is called whatever the server listed
has_always(tools) == TRUE

\* tools.tools.some((t) => t.name === 'get_current_time')
has(tools) == "get_current_time" \in tools

\* main() up to `await client.connect(transport)`
ClientMain ==
  /\ client.pc = "start"
  /\ client' = Await(client, "connect")
  /\ UNCHANGED <<serverVars, clockVars>>

\* connect resolved: `await client.listTools()`
ConnectResolved ==
  /\ client.pc = "connect"
  /\ client' = Await(Resolved(client), "listTools")
  /\ UNCHANGED <<serverVars, clockVars>>

\* listTools resolved with the names ts: the call of the tool if it is
\* listed, else `await client.close()`
ListToolsResolved(ts) ==
  /\ client.pc = "listTools"
  /\ client' = Await([Resolved(client) EXCEPT !.tools = ts],
                     IF has(ts) THEN "callTool" ELSE "close")
  /\ UNCHANGED <<serverVars, clockVars>>

\* callTool resolved with the result of the server's tool:
\* `await client.close()`
CallToolResolved ==
  /\ client.pc = "callTool"
  /\ client' = Await([Resolved(client) EXCEPT
                        !.result = ToolResult(getCurrentTime(now))], "close")
  /\ UNCHANGED <<serverVars, clockVars>>

\* close resolved: main() returns
CloseResolved ==
  /\ client.pc = "close"
  /\ client' = [Resolved(client) EXCEPT !.pc = "returned"]
  /\ UNCHANGED <<serverVars, clockVars>>

\* main() throws (new URL(serverUrl)) or the awaited promise rejects:
\* main().catch logs the error and calls process.exit(1)
MainRejected ==
  /\ client.pc \in {"start", "connect", "listTools", "callTool", "close"}
  /\ client' = [client EXCEPT !.pc = "exited", !.exit = ExitFailure]
  /\ UNCHANGED <<serverVars, clockVars>>

Init ==
  /\ transports = [k \in Ids |-> NoTransport]
  /\ handle = [h \in HandleIds |-> Unborn]
  /\ removed = {}
  /\ running = Idle
  /\ now = Epoch
  /\ calls = [tool \in TimeTools |-> <<>>]
  /\ client = ClientStart

(* ------------------------------ registry ------------------------------- *)
\* transports[k]: an own property, a member inherited from Object.prototype,
\* or undefined
Lookup(t, k) ==
  IF k \in Ids THEN t[k]
  ELSE IF k \in ObjectPrototypeKeys THEN Inherited
  ELSE NoTransport

\* bug: `transport` shared by all requests, so the callback stores the
\* transport constructed last
Register_latest(t, sid, h) == [t EXCEPT ![sid] = Cardinality(Constructed)]

\* bug: the callback keeps an entry that is already there
Register_ifAbsent(t, sid, h) ==
  IF t[sid] = NoTransport THEN [t EXCEPT ![sid] = h] ELSE t

\* onsessioninitialized: transports[sid] = transport
Register(t, sid, h) == [t EXCEPT ![sid] = h]

\* bug: `delete transports.sid`, the property named "sid"
Unregister_literal(t, sid) == t

\* delete transports[sid]
Unregister(t, sid) ==
  IF sid \in Ids THEN [t EXCEPT ![sid] = NoTransport] ELSE t

\* bug: the callback tests a field the transport does not have
OnClose_wrongField(t, h) == t

\* transport.onclose
OnClose(t, h) ==
  IF Truthy(handle[h].sessionId) THEN Unregister(t, handle[h].sessionId) ELSE t

\* bug: one UUID drawn at start-up and returned by every call
sessionIdGenerator_cached(u) == "uuid-a"

\* sessionIdGenerator: () => randomUUID(), u being what randomUUID() returned
sessionIdGenerator(u) == u

\* bug: the header is read under the name session-id
SessionIdHeader_sessionId(req) == req.other

\* req.headers['mcp-session-id']
SessionIdHeader(req) == req.mcp

(* ------------------------- the SDK's transport ------------------------- *)
\* what an initialized transport answers to a request handed to it
SdkReply(req) ==
  IF req.verb = "DELETE" THEN "closing"
  ELSE IF req.verb = "GET" THEN "stream"
  ELSE IF req.body.envelope # "valid" THEN "error: invalid request"
  ELSE IF req.body.method = "initialize" THEN "error: already initialized"
  ELSE "content: text"

NextScen(h, req) ==
  IF handle[h].scen = 1 /\ SdkReply(req) = "content: text" THEN 2
  ELSE IF handle[h].scen = 2 /\ req.verb = "DELETE" THEN 3
  ELSE handle[h].scen

Run(step, req, h, res) ==
  [step |-> step, req |-> req, handle |-> h, res |-> res]

\* transport.handleRequest(req, res, ...) on what the registry lookup gave
HandleRequest(transport, req) ==
  IF transport = Inherited
  THEN /\ \E status \in {StatusServerError, StatusNone} :
            running' = Run("throw", req, NoTransport, Thrown(status))
       /\ UNCHANGED <<transports, handle, removed>>
  ELSE /\ running' = Run("dispatch", req, transport,
                         SdkResponse(SdkReply(req), Undefined))
       /\ handle' = [handle EXCEPT ![transport].scen = NextScen(transport, req)]
       /\ UNCHANGED <<transports, removed>>

(* --------------------------- app.post('/mcp') -------------------------- *)
\* if (sessionId && transports[sessionId]) ... handleRequest
PostKnownSession(req) ==
  LET sessionId == SessionIdHeader(req) IN
  /\ running = Idle
  /\ Truthy(sessionId) /\ Lookup(transports, sessionId) # NoTransport
  /\ HandleRequest(Lookup(transports, sessionId), req)

\* else if (!sessionId && isInitializeRequest(req.body)): construct the
\* transport and the server, up to `await server.connect(transport)`
PostInitialize(req) ==
  LET sessionId == SessionIdHeader(req)
      h == Cardinality(Constructed) + 1 IN
  /\ running = Idle
  /\ ~(Truthy(sessionId) /\ Lookup(transports, sessionId) # NoTransport)
  /\ ~Truthy(sessionId) /\ isInitializeRequest(req.body)
  /\ h \in HandleIds
  /\ handle' = [handle EXCEPT ![h] = [Unborn EXCEPT !.phase = "connecting",
                                                      !.req = req,
                                                      !.tools = server_tool(NewMcpServer, ToolName)]]
  /\ running' = Run("construct", req, h, NoResponse)
  /\ UNCHANGED <<transports, removed>>

\* else: the fixed 400
PostReject(req) ==
  LET sessionId == SessionIdHeader(req) IN
  /\ running = Idle
  /\ ~(Truthy(sessionId) /\ Lookup(transports, sessionId) # NoTransport)
  /\ ~(~Truthy(sessionId) /\ isInitializeRequest(req.body))
  /\ running' = Run("reject", req, NoTransport, BadRequestJson)
  /\ UNCHANGED <<transports, handle, removed>>

\* server.connect resolved: transport.handleRequest(req, res, req.body) with
\* the initialize request; the SDK assigns sessionIdGenerator() and calls
\* onsessioninitialized
PostInitHandleRequest(h, u) ==
  LET sid == sessionIdGenerator(u) IN
  /\ running = Idle
  /\ handle[h].phase = "connecting"
  /\ transports' = Register(transports, sid, h)
  /\ handle' = [handle EXCEPT ![h] =
                  [@ EXCEPT !.phase = "initialized", !.sessionId = sid,
                            !.uuid = u, !.scen = 1, !.req = NoRequest]]
  /\ running' = Run("dispatch", handle[h].req, h, SdkResponse("initialized", sid))
  /\ UNCHANGED removed

\* the same call when the SDK refuses the request (Accept or Content-Type
\* header, protocol version): no session id, no callback
PostInitRefused(h) ==
  /\ running = Idle
  /\ handle[h].phase = "connecting"
  /\ handle' = [handle EXCEPT ![h].phase = "refused", ![h].req = NoRequest]
  /\ running' = Run("dispatch", handle[h].req, h,
                    SdkResponse("error: refused", Undefined))
  /\ UNCHANGED <<transports, removed>>

\* `await server.connect(transport)` rejects: the handler ends there
ConnectRejected(h) ==
  /\ running = Idle
  /\ handle[h].phase = "connecting"
  /\ handle' = [handle EXCEPT ![h].phase = "connectFailed", ![h].req = NoRequest]
  /\ \E status \in {StatusServerError, StatusNone} :
       running' = Run("connect rejected", handle[h].req, NoTransport,
                      Response(status, "none", 0, "connect rejected", Undefined))
  /\ UNCHANGED <<transports, removed>>

(* ------------------------- handleSessionRequest ------------------------ *)
\* if (!sessionId || !transports[sessionId]) 400
SessionReject(req) ==
  LET sessionId == SessionIdHeader(req) IN
  /\ running = Idle
  /\ ~Truthy(sessionId) \/ Lookup(transports, sessionId) = NoTransport
  /\ running' = Run("reject", req, NoTransport, BadRequestText)
  /\ UNCHANGED <<transports, handle, removed>>

\* transport = transports[sessionId]; transport.handleRequest(req, res)
SessionKnown(req) ==
  LET sessionId == SessionIdHeader(req) IN
  /\ running = Idle
  /\ ~(~Truthy(sessionId) \/ Lookup(transports, sessionId) = NoTransport)
  /\ HandleRequest(Lookup(transports, sessionId), req)

(* ----------------------------- connection ------------------------------ *)
\* the connection of a constructed transport closes (the DELETE handed to it
\* is processed, or any other reason): the SDK calls transport.onclose
TransportClose(h) ==
  /\ running = Idle
  /\ handle[h].phase # "unborn"
  /\ transports' = OnClose(transports, h)
  /\ removed' = removed \cup
       {id \in Ids : id = handle[h].sessionId /\ transports[id] # NoTransport}
  /\ handle' = [handle EXCEPT ![h].closed = TRUE,
                              ![h].scen = IF @ = 3 THEN 4 ELSE @]
  /\ UNCHANGED running

\* the running handler reaches its next await or returns
Yield ==
  /\ running # Idle
  /\ running' = Idle
  /\ UNCHANGED <<transports, handle, removed, clockVars, clientVars>>

(* ---------------------------- specifications --------------------------- *)
Post ==
  /\ \E req \in PostRequests :
       PostKnownSession(req) \/ PostInitialize(req) \/ PostReject(req)
  /\ UNCHANGED <<clockVars, clientVars>>

GetOrDelete ==
  /\ \E req \in SessionRequests : SessionReject(req) \/ SessionKnown(req)
  /\ UNCHANGED <<clockVars, clientVars>>

Connected ==
  /\ \E h \in HandleIds : PostInitRefused(h) \/ ConnectRejected(h)
  /\ UNCHANGED <<clockVars, clientVars>>

Close ==
  /\ \E h \in HandleIds : TransportClose(h)
  /\ UNCHANGED <<clockVars, clientVars>>

\* randomUUID() returns a value it never returned before
InitializedFresh ==
  /\ \E h \in HandleIds : \E u \in Ids \ Minted : PostInitHandleRequest(h, u)
  /\ UNCHANGED <<clockVars, clientVars>>

\* randomUUID() returns any value
InitializedAny ==
  /\ \E h \in HandleIds : \E u \in Ids : PostInitHandleRequest(h, u)
  /\ UNCHANGED <<clockVars, clientVars>>

Next == Post \/ GetOrDelete \/ Connected \/ Close \/ Yield \/ InitializedFresh

NextAnyGen == Post \/ GetOrDelete \/ Connected \/ Close \/ Yield \/ InitializedAny

Spec == Init /\ [][Next]_vars

SpecAnyGen == Init /\ [][NextAnyGen]_vars

\* the current-time tools and the wall clock alone
NextClock == ClockAdvance \/ CallNodeTool \/ CallPythonTool

SpecClock == Init /\ [][NextClock]_vars

\* the example client, and the wall clock the tool it calls reads
NextClient ==
  \/ ClockAdvance
  \/ ClientMain
  \/ ConnectResolved
  \/ \E ts \in SUBSET ListedNames : ListToolsResolved(ts)
  \/ CallToolResolved
  \/ CloseResolved
  \/ MainRejected

SpecClient == Init /\ [][NextClient]_vars

TypeOK ==
  /\ transports \in [Ids -> {NoTransport} \cup HandleIds]
  /\ \A h \in HandleIds : handle[h].phase \in Phases
  /\ removed \subseteq Ids

(* ------------------------------- claims -------------------------------- *)
\* a handler has just run: from the arrival of its request, or from its
\* await, to its next await or return
Ran == running = Idle /\ running' # Idle

\* k is the identifier of a session in the registry
Registered(t, k) == k \in Ids /\ t[k] # NoTransport

\* the request is no initialize request
NonInitialize(req) == req.verb \in {"GET", "DELETE"} \/ req.body # InitializeBody

Live(h) == handle[h].phase # "unborn" /\ ~handle[h].closed

FixedRejection(req) == IF req.verb = "POST" THEN BadRequestJson ELSE BadRequestText

\* C1: a POST, GET or DELETE whose session id is in the registry is handed
\* to the one transport whose initialize request was given that id, and to
\* no other, whatever happened to other sessions before.
C1_RoutedToOwnHandle ==
  [][(Ran /\ Registered(transports, running'.req.mcp)) =>
       /\ running'.step = "dispatch"
       /\ running'.handle \in HandleIds
       /\ handle[running'.handle].phase = "initialized"
       /\ handle[running'.handle].sessionId = running'.req.mcp
       /\ handle[running'.handle].uuid = running'.req.mcp
       /\ \A h \in HandleIds \ {running'.handle} :
            handle[h].sessionId # running'.req.mcp]_vars

\* a request is handed to its session's transport after another session was
\* initialized and closed
C1_Witness ==
  /\ running.step = "dispatch"
  /\ running.req.mcp \in Ids
  /\ handle[running.handle].sessionId = running.req.mcp
  /\ \E h \in HandleIds \ {running.handle} :
       handle[h].phase = "initialized" /\ handle[h].closed

\* C2: a POST without session id whose body is no valid initialize request
\* gets status 400 with the fixed JSON-RPC error body, is handed to no
\* transport and constructs none.
C2_NoSessionNotInitializeRejected ==
  [][(/\ Ran
      /\ running'.req.verb = "POST"
      /\ ~Truthy(running'.req.mcp)
      /\ running'.req.body # InitializeBody) =>
       /\ running'.step = "reject"
       /\ running'.res = BadRequestJson
       /\ running'.res.status = 400
       /\ running'.res.code = -32000
       /\ running'.res.message = "Bad Request: No valid session ID provided"
       /\ running'.handle = NoTransport
       /\ UNCHANGED <<transports, handle, removed>>]_vars

\* a tool call without session id is rejected while a session is registered
C2_Witness ==
  /\ running.step = "reject"
  /\ running.req.verb = "POST"
  /\ running.req.mcp = Undefined
  /\ running.req.body.method = "tools/call"
  /\ running.res = BadRequestJson
  /\ \E id \in Ids : transports[id] # NoTransport

\* C3: once the connection of a registered session closed, its id is not in
\* the registry, and a later request with that id is treated as unknown: 400
\* with the JSON error for a POST, 400 with the text for a GET or DELETE,
\* and no transport is handed the request.
C3_ClosedSessionUnknown ==
  [][/\ \A id \in removed' : transports'[id] = NoTransport
     /\ (Ran /\ running'.req.mcp \in removed) =>
          /\ running'.step = "reject"
          /\ running'.res = FixedRejection(running'.req)
          /\ running'.handle = NoTransport
          /\ UNCHANGED <<transports, handle, removed>>]_vars

\* a GET with the id of a closed session is rejected
C3_Witness ==
  /\ running.step = "reject"
  /\ running.req.verb = "GET"
  /\ running.req.mcp \in removed
  /\ \E h \in HandleIds : handle[h].sessionId = running.req.mcp /\ handle[h].closed

\* C4: a GET or DELETE is handed to a transport only when its header is the
\* id of a registered session; for every other header value (absent, empty,
\* any other string) the answer is 400 "Invalid or missing session ID".
C4_SessionRequestRejectedUnlessRegistered ==
  [][(Ran /\ running'.req.verb \in {"GET", "DELETE"}) =>
       IF Registered(transports, running'.req.mcp)
       THEN running'.step = "dispatch" /\ running'.handle = transports[running'.req.mcp]
       ELSE /\ running'.step = "reject"
            /\ running'.res = BadRequestText
            /\ running'.handle = NoTransport]_vars

\* C5: a transport is constructed and an id is added to the registry only
\* by a POST with a valid initialize body and no session id; a POST with an
\* unknown session id gets the fixed 400 and creates nothing, also with a
\* valid initialize body; no GET or DELETE creates a session.
C5_SessionOnlyFromInitialize ==
  [][/\ (\/ Constructed' # Constructed
         \/ \E id \in Ids : transports'[id] # transports[id]
                            /\ transports'[id] # NoTransport) =>
          /\ running'.req.verb = "POST"
          /\ running'.req.body = InitializeBody
          /\ ~Truthy(running'.req.mcp)
     /\ (/\ Ran
         /\ running'.req.verb = "POST"
         /\ Truthy(running'.req.mcp)
         /\ ~Registered(transports, running'.req.mcp)) =>
          /\ running'.res = BadRequestJson
          /\ UNCHANGED <<transports, handle, removed>>]_vars

\* C6: after POST initialize (answered with a fresh id S), POST S with a
\* get_current_time call (answered with text) and DELETE S, every GET S that
\* arrives once the DELETE has been processed gets 400 "Invalid or missing
\* session ID".
C6_GetAfterDeleteRejected ==
  [][(/\ Ran
      /\ running'.req.verb = "GET"
      /\ \E h \in HandleIds :
           handle[h].scen = 4 /\ handle[h].sessionId = running'.req.mcp) =>
       /\ running'.step = "reject"
       /\ running'.res = BadRequestText
       /\ running'.res.status = 400
       /\ running'.res.message = "Invalid or missing session ID"]_vars

\* the whole scenario ran and the GET was rejected
C6_Witness ==
  /\ running.step = "reject"
  /\ running.req.verb = "GET"
  /\ running.res = BadRequestText
  /\ \E h \in HandleIds :
       handle[h].scen = 4 /\ handle[h].sessionId = running.req.mcp

\* C7 as stated: the session id is read from the header session-id, so a
\* non-initialize request whose session-id header is a registered id is
\* handed to that session's transport.
C7_ReadsSessionIdHeader ==
  [][(/\ Ran
      /\ NonInitialize(running'.req)
      /\ Registered(transports, running'.req.other)) =>
       /\ running'.step = "dispatch"
       /\ running'.handle = transports[running'.req.other]]_vars

\* C7 amended: the session id is read from the header mcp-session-id: a
\* non-initialize request whose mcp-session-id header is a registered id is
\* handed to that session's transport, and one without that header is
\* treated as carrying no session id, whatever a header session-id holds.
C7_ReadsMcpSessionIdHeader ==
  [][(Ran /\ NonInitialize(running'.req)) =>
       /\ Registered(transports, running'.req.mcp) =>
            /\ running'.step = "dispatch"
            /\ running'.handle = transports[running'.req.mcp]
       /\ running'.req.mcp = Undefined =>
            /\ running'.step = "reject"
            /\ running'.res = FixedRejection(running'.req)]_vars

\* a request naming a registered id in session-id alone was rejected
C7_Witness ==
  /\ running.step = "reject"
  /\ running.req.mcp = Undefined
  /\ running.req.other \in Ids
  /\ transports[running.req.other] # NoTransport

\* no two live transports carry the same session id
OneLivePerId ==
  \A h1, h2 \in HandleIds :
    (h1 # h2 /\ Live(h1) /\ Live(h2) /\ Truthy(handle[h1].sessionId)) =>
      handle[h1].sessionId # handle[h2].sessionId

\* randomUUID() returned no value twice
GeneratorUnique ==
  \A h1, h2 \in HandleIds :
    (h1 # h2 /\ handle[h1].uuid # Undefined) => handle[h1].uuid # handle[h2].uuid

C10_RemovedNeverRegisteredAgain ==
  \A id \in removed :
    /\ transports[id] = NoTransport
    /\ \A h \in HandleIds : handle[h].sessionId = id => handle[h].closed

\* a session was registered after another one had been removed
C10_Witness ==
  /\ running.res.message = "initialized"
  /\ transports[running.res.sid] = running.handle
  /\ removed # {}

\* C11: removal is idempotent: running a transport's close callback again,
\* or removing an identifier that is not in the registry, leaves the
\* registry as the first removal left it, and a close callback removes no
\* entry of another session.
C11_RemovalIdempotent ==
  /\ \A h \in Constructed :
       /\ OnClose(OnClose(transports, h), h) = OnClose(transports, h)
       /\ (handle[h].closed /\ handle[h].sessionId \in removed) =>
            OnClose(transports, h) = transports
       /\ \A id \in Ids :
            OnClose(transports, h)[id] # transports[id] => transports[id] = h
  /\ \A id \in Ids :
       transports[id] = NoTransport => Unregister(transports, id) = transports

\* a transport's entry was removed by its close callback, which can run
\* again while another session is registered
C11_Witness ==
  /\ running = Idle
  /\ \E h \in Constructed :
       /\ handle[h].closed
       /\ handle[h].sessionId \in removed
       /\ \E id \in Ids \ {handle[h].sessionId} : transports[id] # NoTransport

\* the instant a timestamp string denotes, in microseconds
Denotes(text) ==
  LET n == Len(text.fraction)
      v == IF n = 0 THEN 0
           ELSE IF n = 3
           THEN text.fraction[1] * 100 + text.fraction[2] * 10 + text.fraction[3]
           ELSE text.fraction[1] * 100000 + text.fraction[2] * 10000
                + text.fraction[3] * 1000 + text.fraction[4] * 100
                + text.fraction[5] * 10 + text.fraction[6]
  IN text.seconds * MicrosPerSecond + v * Pow10(6 - n)

\* the layout of a timestamp string: how many digits follow the decimal
\* point (0: no decimal point) and the zone designator
Layout(text) == <<Len(text.fraction), text.zone>>

\* an ISO-8601 UTC timestamp: zone designator Z or +00:00
Iso8601Utc(text) ==
  text.zone \in {"Z", "+00:00"} /\ Len(text.fraction) \in {0, 3, 6}

\* the second of two invocations does not return an earlier time
NonDecreasing(tool) ==
  Len(calls[tool]) = 2 => Denotes(calls[tool][1].text) <= Denotes(calls[tool][2].text)

NoFailure(tool) ==
  \A i \in 1..Len(calls[tool]) :
    calls[tool][i].type = "text" /\ ~calls[tool][i].isError

C13_RegistryIsLiveInitialized ==
  /\ \A id \in Ids :
       transports[id] # NoTransport <=>
         \E h \in HandleIds :
           /\ handle[h].sessionId = id
           /\ handle[h].phase = "initialized"
           /\ ~handle[h].closed
  /\ \A id \in Ids :
       transports[id] # NoTransport =>
         /\ handle[transports[id]].sessionId = id
         /\ ~handle[transports[id]].closed
         /\ handle[transports[id]].phase = "initialized"

\* C14: an entry leaves the registry only through the close callback of the
\* transport stored in it: no handler run (reject, pass-through, initialize)
\* and no close of another session changes or removes an existing entry.
C14_OnlyOwnCloseRemoves ==
  [][\A id \in Ids :
       (transports[id] # NoTransport /\ transports'[id] # transports[id]) =>
         /\ transports'[id] = NoTransport
         /\ running = Idle /\ running' = Idle
         /\ TransportClose(transports[id])
         /\ handle[transports[id]].sessionId = id
         /\ handle'[transports[id]].closed
         /\ \A other \in Ids \ {id} : transports'[other] = transports[other]]_vars

\* a request is passed through to a session after another session's entry
\* was removed by its close
C14_Witness ==
  /\ running.step = "dispatch"
  /\ running.req.mcp \in Ids
  /\ transports[running.req.mcp] = running.handle
  /\ \E h \in HandleIds \ {running.handle} :
       handle[h].closed /\ handle[h].sessionId \in removed

\* C15: whatever the interleaving of the handlers at their awaits, every
\* initialize ends with an entry of its own that maps to its own transport,
\* no initialize registers the transport of another request, a lookup gives
\* the transport registered under the id, and no close removes the entry of
\* another session.
C15_InterleavedHandlersKeepRegistry ==
  [][/\ (Ran /\ running'.res.message = "initialized") =>
          /\ running'.res.sid \in Ids
          /\ transports[running'.res.sid] = NoTransport
          /\ transports'[running'.res.sid] = running'.handle
          /\ handle[running'.handle].phase = "connecting"
          /\ handle'[running'.handle].sessionId = running'.res.sid
          /\ \A id \in Ids \ {running'.res.sid} : transports'[id] = transports[id]
     /\ (Ran /\ Registered(transports, running'.req.mcp)) =>
          running'.handle = transports[running'.req.mcp]
     /\ \A h \in HandleIds :
          (handle'[h].phase = "initialized" /\ ~handle'[h].closed) =>
            transports'[handle'[h].sessionId] = h
     /\ \A id \in Ids :
          (transports[id] # NoTransport /\ transports'[id] = NoTransport) =>
            handle[transports[id]].sessionId = id /\ handle'[transports[id]].closed]_vars

\* an initialize completes after a later initialize, started while the
\* first awaited server.connect, has completed
C15_Witness ==
  /\ running.res.message = "initialized"
  /\ transports[running.res.sid] = running.handle
  /\ \E h \in HandleIds :
       /\ h > running.handle
       /\ handle[h].phase = "initialized"
       /\ ~handle[h].closed
       /\ transports[handle[h].sessionId] = h

\* the tool names a client of the process can be served: those of the
\* servers constructed so far
Served == UNION {handle[h].tools : h \in HandleIds}

\* C16, as stated: the set of tool names served is {get_current_time}
\* before the first request is handled, and no request or session creation
\* registers a tool.
C16_ToolsRegisteredAtStartup ==
  /\ Served = {"get_current_time"}
  /\ \A h \in HandleIds : handle[h].tools = {"get_current_time"}

\* C16, amended: no tool is registered before the first initialize request;
\* the handler of every initialize request without session id constructs a
\* server and registers get_current_time on it, once, before it awaits
\* server.connect; the names of a constructed server are {get_current_time}
\* and no later request, handshake or close changes them.
C16_ToolsRegisteredPerSession ==
  [][/\ \A h \in HandleIds :
          /\ handle[h].phase = "unborn" => handle[h].tools = {}
          /\ handle[h].phase # "unborn" =>
               /\ handle[h].tools = {"get_current_time"}
               /\ handle'[h].tools = handle[h].tools
          /\ handle'[h].tools # handle[h].tools =>
               /\ Ran /\ running'.step = "construct" /\ running'.handle = h
               /\ running'.req.verb = "POST"
               /\ running'.req.body = InitializeBody
               /\ handle'[h].tools = {"get_current_time"}
     /\ (Ran /\ running'.step = "construct") =>
          /\ handle[running'.handle].tools = {}
          /\ handle'[running'.handle].tools = {"get_current_time"}]_vars

\* a second session is created: its server registers the tool again, while
\* the first session is live
C16_Witness ==
  /\ running.step = "construct"
  /\ handle[running.handle].tools = {"get_current_time"}
  /\ \E h \in HandleIds \ {running.handle} :
       /\ handle[h].phase = "initialized" /\ ~handle[h].closed
       /\ handle[h].tools = {"get_current_time"}

\* C17: every request gets exactly one disposition. The handler of a POST,
\* GET or DELETE ends either with the fixed 400 of its route and no transport
\* handed the request, or with the request handed to exactly one transport
\* and no 400 of the router, never both and, unless server.connect rejects,
\* never neither. (The handler that constructs a transport has not ended: it
\* awaits server.connect, and ends with the hand-over when that resolves.)
C17_ExactlyOneDisposition ==
  [][(Ran /\ running'.step \notin {"construct", "connect rejected"}) =>
       \/ /\ running'.step = "reject"
          /\ running'.res = FixedRejection(running'.req)
          /\ running'.handle = NoTransport
       \/ /\ running'.step = "dispatch"
          /\ running'.handle \in HandleIds
          /\ running'.res # FixedRejection(running'.req)]_vars

IsPrefix(s, t) == Len(s) <= Len(t) /\ \A i \in 1..Len(s) : s[i] = t[i]
Has(s, e) == \E i \in 1..Len(s) : s[i] = e

\* C18: the example client makes its calls in the order connect, list
\* tools, optional tool call, close, each only after the one before it has
\* completed; it lists tools only after connect completed; it calls
\* get_current_time only if the server listed that name; on a run without
\* failure it closes after the last step and returns; when a step fails it
\* exits with status 1 and makes no later call.
C18_ClientStepsInOrder ==
  [][/\ \/ IsPrefix(client'.issued, <<"connect", "listTools", "callTool", "close">>)
        \/ IsPrefix(client'.issued, <<"connect", "listTools", "close">>)
     /\ IsPrefix(client'.completed, client'.issued)
     /\ client'.issued # client.issued =>
          /\ client'.completed = client.issued
          /\ Len(client'.issued) = Len(client.issued) + 1
     /\ Has(client'.issued, "listTools") => Has(client'.completed, "connect")
     /\ Has(client'.issued, "callTool") =>
          /\ Has(client'.completed, "listTools")
          /\ "get_current_time" \in client'.tools
     /\ Has(client'.issued, "close") =>
          /\ Has(client'.completed, "listTools")
          /\ "get_current_time" \in client'.tools <=> Has(client'.completed, "callTool")
     /\ (client'.pc # "exited" /\ Has(client'.completed, "listTools")
           /\ ("get_current_time" \in client'.tools => Has(client'.completed, "callTool"))) =>
          Has(client'.issued, "close")
     /\ client'.pc = "returned" <=>
          (client'.exit = NoExit /\ Has(client'.completed, "close"))
     /\ client'.pc = "exited" <=> client'.exit = 1
     /\ (client.pc # "exited" /\ client'.pc = "exited") =>
          /\ client'.issued = client.issued
          /\ client'.completed = client.completed
          /\ Len(client.completed) < 4
     /\ client.pc \in {"exited", "returned"} => client' = client]_vars

\* a run without failure against a server that lists get_current_time,
\* called after the clock has advanced
C18_Witness ==
  /\ client.pc = "returned"
  /\ client.completed = <<"connect", "listTools", "callTool", "close">>
  /\ client.result = ToolResult(getCurrentTime(now))
  /\ now # Epoch

====
